---- MODULE Spec2Model ----
(***************************************************************************)
(* A model of eirenewatch's task-lifecycle engine:                         *)
(*   runTask      the retry loop of one task           (manager-pool.ts)   *)
(*   TaskManager  updateConfig / teardown of one slot  (manager-pool.ts)   *)
(*   ManagerPool  trigger / teardown over all slots    (manager-pool.ts)   *)
(*   watch        the supervisor glue                  (watch.ts)          *)
(*                                                                         *)
(* JavaScript runs one job at a time.  A step of the model is the code a   *)
(* job runs between two awaits.  Continuations whose awaited promise has   *)
(* settled (microtasks) run before the next timer or watcher event         *)
(* (macrotasks); promises owned by user code (launch, the teardown hook,   *)
(* watcher.close) may settle at any moment.                                *)
(***************************************************************************)
EXTENDS Integers, Sequences, FiniteSets, TLC

\* ----------------------------------------------------------------- bounds
\* longest data vector a trigger call receives
MaxLen == 2
\* number of trigger calls (watcher ready + debounced changes)
MaxTriggers == 2
\* number of calls of updateConfig and teardown on one TaskManager
MaxCalls == 3
\* largest retry.retries of a template
MaxRetries == 1
\* cap of failedAttempts in persistent mode, where it grows without limit
MaxAttempts == 2

\* largest retry.retries of a template in the specification of one runTask
MaxRetriesAlone == 3
\* cap of the log of one runTask in persistent mode, where it never ends
MaxLog == 8

\* ------------------------------------------------------ program constants
DefaultFactor == 2
DefaultMinTimeout == 1000
DefaultMaxTimeout == 30000

Undefined == "undefined"
DataValues == {"a"}

Min(a, b) == IF a <= b THEN a ELSE b
Max(a, b) == IF a >= b THEN a ELSE b

\* every task and every manager is created by one slot operation of a trigger
MaxTasks == Max(MaxTriggers * MaxLen, MaxCalls)
MaxManagers == MaxTriggers * MaxLen
TaskIds == 1 .. MaxTasks
ManagerIds == 1 .. MaxManagers
TriggerIds == 1 .. MaxTriggers
CallIds == 1 .. Max(MaxTriggers, MaxCalls)

\* the data vectors parseProcessData may return: entries may be undefined
DataVectors == UNION {[1 .. n -> DataValues \cup {Undefined}] : n \in 0 .. MaxLen}

VARIABLES
  template,       \* the TaskTemplate shared by all managers (immutable)
  parentAborted,  \* template.abortSignal.aborted
  mgr,            \* the TaskManager closures ever created, by identity
  task,           \* the ActiveTask records / runTask invocations ever created
  managers,       \* the pool's Map<number, TaskManager>, in insertion order
  trig,           \* the invocations of ManagerPool.trigger (and, for a
                  \* TaskManager alone, the calls of its callers)
  pt,             \* the invocation of ManagerPool.teardown
  sup,            \* the supervisor's ready / terminating flags, shutdown()
  log             \* what one runTask did so far (retry-loop specification)

vars == <<template, parentAborted, mgr, task, managers, trig, pt, sup, log>>

\* an optional number: <<>> when the property is absent, <<v>> when it is v
Unset == <<>>

\* ------------------------------------------------------------- the template
\* retry: { retries: 3, ...task.retry }; factor, minTimeout and maxTimeout
\* are optional
Templates ==
  [interruptible : BOOLEAN, persistent : BOOLEAN, hasTeardown : BOOLEAN,
   retries : 0 .. MaxRetries,
   factor : {Unset}, minTimeout : {Unset}, maxTimeout : {Unset}]

\* the templates of the pool's specification
PoolTemplates == {tp \in Templates : tp.retries = 0}

\* a ?? b
Coalesce(a, b) == IF a = Unset THEN b ELSE a[1]

\* ---------------------------------------------------------------- records
NoTask ==
  [pc |-> "none", mgr |-> 0, aborted |-> FALSE, queued |-> FALSE,
   failedAttempts |-> -1, delay |-> 0, first |-> FALSE, config |-> 0,
   data |-> Undefined, result |-> "none"]

NoManager ==
  [created |-> FALSE, entryId |-> "", teardownInitiated |-> FALSE,
   activeTask |-> 0, firstEvent |-> TRUE, hookCalls |-> 0,
   teardownReturned |-> FALSE]

NoTrigger ==
  [pc |-> "idle", data |-> <<>>, maxLength |-> 0, i |-> 0, m |-> 0, t |-> 0,
   first |-> FALSE, alone |-> FALSE]

NoPoolTeardown ==
  [pc |-> "idle", m |-> 0, t |-> 0, visited |-> {}, activeAtStart |-> {}]

\* the part of the state the manager and pool code reads and writes
Heap == [mgr |-> mgr, task |-> task, managers |-> managers]

\* ------------------------------------------------------------------ runTask
\* a Delay that forgets the cap maxTimeout
DelayNoCap(failedAttempts) ==
  failedAttempts * Coalesce(template.factor, DefaultFactor)
    * Coalesce(template.minTimeout, DefaultMinTimeout)

\* the delay before the launch with attempt = failedAttempts
Delay(failedAttempts) ==
  LET retryFactor == Coalesce(template.factor, DefaultFactor)
      minTimeout == Coalesce(template.minTimeout, DefaultMinTimeout)
      maxTimeout == Coalesce(template.maxTimeout, DefaultMaxTimeout)
  IN Min(failedAttempts * retryFactor * minTimeout,
         Coalesce(template.maxTimeout, maxTimeout))

\* one pass from the top of the while loop to its next await: the aborted
\* check, failedAttempts++, then either the backoff wait or the launch
LoopTop(tk) ==
  IF tk.aborted
  THEN [tk EXCEPT !.pc = "returned", !.result = "aborted"]
  ELSE LET failedAttempts == tk.failedAttempts + 1 IN
       IF failedAttempts > 0
       THEN [tk EXCEPT !.failedAttempts = failedAttempts,
                       !.delay = Delay(failedAttempts), !.pc = "sleeping"]
       ELSE [tk EXCEPT !.failedAttempts = failedAttempts, !.delay = 0,
                       !.pc = "launching"]

\* the continuation of "await setTimeout(delay)": launch is invoked next,
\* with attempt = failedAttempts; the signal is not looked at again
AfterSleep(tk) == [tk EXCEPT !.pc = "launching"]

\* an AfterLaunch that takes an AbortError for any other error
AfterLaunchAbortIsError(tk, outcome) ==
  IF outcome = "ok"
  THEN IF template.persistent
       THEN LoopTop([tk EXCEPT !.failedAttempts = 0])
       ELSE [tk EXCEPT !.failedAttempts = 0, !.pc = "returned",
                       !.result = "completed"]
  ELSE IF template.persistent
  THEN LoopTop(tk)
  ELSE LET retriesLeft == template.retries - tk.failedAttempts IN
       IF retriesLeft < 0
       THEN [tk EXCEPT !.pc = "threw", !.result = "internalError"]
       ELSE IF retriesLeft = 0
       THEN [tk EXCEPT !.pc = "threw", !.result = "failed"]
       ELSE LoopTop(tk)

\* an AfterLaunch that counts the retries in persistent mode as well
AfterLaunchCountsPersistent(tk, outcome) ==
  IF outcome = "ok"
  THEN IF template.persistent
       THEN LoopTop([tk EXCEPT !.failedAttempts = 0])
       ELSE [tk EXCEPT !.failedAttempts = 0, !.pc = "returned",
                       !.result = "completed"]
  ELSE IF outcome = "abort"
  THEN [tk EXCEPT !.pc = "returned", !.result = "aborted"]
  ELSE LET retriesLeft == template.retries - tk.failedAttempts IN
       IF retriesLeft < 0
       THEN [tk EXCEPT !.pc = "threw", !.result = "internalError"]
       ELSE IF retriesLeft = 0
       THEN [tk EXCEPT !.pc = "threw", !.result = "failed"]
       ELSE LoopTop(tk)

\* an AfterLaunch that retries once more when no retries are left
AfterLaunchRetriesOnceMore(tk, outcome) ==
  IF outcome = "ok"
  THEN IF template.persistent
       THEN LoopTop([tk EXCEPT !.failedAttempts = 0])
       ELSE [tk EXCEPT !.failedAttempts = 0, !.pc = "returned",
                       !.result = "completed"]
  ELSE IF outcome = "abort"
  THEN [tk EXCEPT !.pc = "returned", !.result = "aborted"]
  ELSE IF template.persistent
  THEN LoopTop(tk)
  ELSE LET retriesLeft == template.retries - tk.failedAttempts IN
       IF retriesLeft < 0
       THEN [tk EXCEPT !.pc = "threw", !.result = "internalError"]
       ELSE LoopTop(tk)

\* the continuation of "await template.launch(...)"; outcome is "ok" (launch
\* returned), "abort" (it threw an AbortError) or "error" (it threw another)
AfterLaunch(tk, outcome) ==
  IF outcome = "ok"
  THEN IF template.persistent
       THEN LoopTop([tk EXCEPT !.failedAttempts = 0])
       ELSE [tk EXCEPT !.failedAttempts = 0, !.pc = "returned",
                       !.result = "completed"]
  ELSE IF outcome = "abort"
  THEN [tk EXCEPT !.pc = "returned", !.result = "aborted"]
  ELSE IF template.persistent
  THEN LoopTop(tk)
  ELSE LET retriesLeft == template.retries - tk.failedAttempts IN
       IF retriesLeft < 0
       THEN [tk EXCEPT !.pc = "threw", !.result = "internalError"]
       ELSE IF retriesLeft = 0
       THEN [tk EXCEPT !.pc = "threw", !.result = "failed"]
       ELSE LoopTop(tk)

\* the retry loop of a task has returned or thrown
RetryLoopEnded(tk) == tk.pc \in {"returned", "threw", "done"}

\* -------------------------------------------------------------- TaskManager
NewTaskId(h) ==
  CHOOSE t \in TaskIds :
    h.task[t].pc = "none" /\ \A u \in 1 .. t - 1 : h.task[u].pc # "none"

NewManagerId(h) ==
  CHOOSE m \in ManagerIds :
    ~h.mgr[m].created /\ \A n \in 1 .. m - 1 : h.mgr[n].created

\* abortController.abort() of task t; a settled task has no listener left
Abort(h, t) ==
  IF h.task[t].pc = "done" THEN h ELSE [h EXCEPT !.task[t].aborted = TRUE]

\* updateConfig from the teardown check on: createAbortController gives a
\* controller that is not aborted (a listener added to an already aborted
\* parent never runs), runTask runs to its first await, i.e. invokes launch,
\* and the record becomes the active task; taskPromise is returned
StartTask(h, m, first, config, data) ==
  IF h.mgr[m].teardownInitiated
  THEN [h |-> h, st |-> "awaitUndef", t |-> 0, first |-> first]
  ELSE LET t == NewTaskId(h)
           tk == LoopTop([NoTask EXCEPT !.mgr = m, !.first = first,
                                        !.config = config, !.data = data])
       IN [h |-> [h EXCEPT !.task[t] = tk, !.mgr[m].activeTask = t],
           st |-> "awaitTask", t |-> t, first |-> first]

\* an UpdateConfig without the persistent test of the non-interruptible
\* branch
UpdateConfigPersistentWaits(h, m, config, data) ==
  LET first == h.mgr[m].firstEvent
      h1 == [h EXCEPT !.mgr[m].firstEvent = FALSE]
      a == h.mgr[m].activeTask
      dropped(hh) == [h |-> hh, st |-> "awaitUndef", t |-> 0, first |-> first]
      queue(hh) == [h |-> [hh EXCEPT !.task[a].queued = TRUE],
                    st |-> "awaitDrain", t |-> a, first |-> first]
  IN IF a # 0
     THEN IF template.interruptible
          THEN LET h2 == Abort(h1, a) IN
               IF h2.task[a].queued THEN dropped(h2) ELSE queue(h2)
          ELSE IF h1.task[a].queued THEN dropped(h1) ELSE queue(h1)
     ELSE StartTask(h1, m, first, config, data)

\* an UpdateConfig that never clears outerFirstEvent
UpdateConfigKeepsFirst(h, m, config, data) ==
  LET first == h.mgr[m].firstEvent
      a == h.mgr[m].activeTask
      dropped(hh) == [h |-> hh, st |-> "awaitUndef", t |-> 0, first |-> first]
      queue(hh) == [h |-> [hh EXCEPT !.task[a].queued = TRUE],
                    st |-> "awaitDrain", t |-> a, first |-> first]
  IN IF a # 0
     THEN IF template.interruptible
          THEN LET h2 == Abort(h, a) IN
               IF h2.task[a].queued THEN dropped(h2) ELSE queue(h2)
          ELSE IF template.persistent THEN dropped(h)
          ELSE IF h.task[a].queued THEN dropped(h) ELSE queue(h)
     ELSE StartTask(h, m, first, config, data)

\* an UpdateConfig that interrupts whatever template.interruptible says
UpdateConfigAlwaysInterrupt(h, m, config, data) ==
  LET first == h.mgr[m].firstEvent
      h1 == [h EXCEPT !.mgr[m].firstEvent = FALSE]
      a == h.mgr[m].activeTask
  IN IF a # 0
     THEN LET h2 == Abort(h1, a) IN
          IF h2.task[a].queued
          THEN [h |-> h2, st |-> "awaitUndef", t |-> 0, first |-> first]
          ELSE [h |-> [h2 EXCEPT !.task[a].queued = TRUE],
                st |-> "awaitDrain", t |-> a, first |-> first]
     ELSE StartTask(h1, m, first, config, data)

\* an UpdateConfig that never aborts the active task
UpdateConfigNoAbort(h, m, config, data) ==
  LET first == h.mgr[m].firstEvent
      h1 == [h EXCEPT !.mgr[m].firstEvent = FALSE]
      a == h.mgr[m].activeTask
  IN IF a # 0
     THEN IF ~template.interruptible /\ template.persistent
          THEN [h |-> h1, st |-> "awaitUndef", t |-> 0, first |-> first]
          ELSE IF h1.task[a].queued
          THEN [h |-> h1, st |-> "awaitUndef", t |-> 0, first |-> first]
          ELSE [h |-> [h1 EXCEPT !.task[a].queued = TRUE],
                st |-> "awaitDrain", t |-> a, first |-> first]
     ELSE StartTask(h1, m, first, config, data)

\* an UpdateConfig that does not look at the queued flag
UpdateConfigNoQueuedTest(h, m, config, data) ==
  LET first == h.mgr[m].firstEvent
      h1 == [h EXCEPT !.mgr[m].firstEvent = FALSE]
      a == h.mgr[m].activeTask
  IN IF a # 0
     THEN LET h2 == IF template.interruptible THEN Abort(h1, a) ELSE h1
          IN [h |-> [h2 EXCEPT !.task[a].queued = TRUE],
              st |-> "awaitDrain", t |-> a, first |-> first]
     ELSE StartTask(h1, m, first, config, data)

\* updateConfig up to its first await or return.  st = "awaitDrain": the
\* call waits for task t to settle; "awaitUndef": it returned undefined;
\* "awaitTask": it returned the promise of the task t it started
UpdateConfig(h, m, config, data) ==
  LET first == h.mgr[m].firstEvent
      h1 == [h EXCEPT !.mgr[m].firstEvent = FALSE]
      a == h.mgr[m].activeTask
      dropped(hh) == [h |-> hh, st |-> "awaitUndef", t |-> 0, first |-> first]
      queue(hh) == [h |-> [hh EXCEPT !.task[a].queued = TRUE],
                    st |-> "awaitDrain", t |-> a, first |-> first]
  IN IF a # 0
     THEN IF template.interruptible
          THEN LET h2 == Abort(h1, a) IN
               IF h2.task[a].queued THEN dropped(h2) ELSE queue(h2)
          ELSE IF template.persistent THEN dropped(h1)
          ELSE IF h1.task[a].queued THEN dropped(h1) ELSE queue(h1)
     ELSE StartTask(h1, m, first, config, data)

\* teardown from "if (template.teardown)" on: the hook is invoked and awaited
TeardownHook(h, m) ==
  IF template.hasTeardown
  THEN [h |-> [h EXCEPT !.mgr[m].hookCalls = @ + 1], st |-> "tdHook"]
  ELSE [h |-> h, st |-> "tdRet"]

\* a Teardown without the teardownInitiated latch
TeardownNoLatch(h, m) ==
  LET h1 == [h EXCEPT !.mgr[m].teardownInitiated = TRUE]
      a == h.mgr[m].activeTask
  IN IF a # 0
     THEN [h |-> Abort(h1, a), st |-> "tdAbort"]
     ELSE TeardownHook(h1, m)

\* teardown up to its first await or return.  st = "tdAbort": it awaits the
\* value of abort(); "tdHook": it awaits the hook; "tdRet": it returned
Teardown(h, m) ==
  IF h.mgr[m].teardownInitiated
  THEN [h |-> h, st |-> "tdRet"]
  ELSE LET h1 == [h EXCEPT !.mgr[m].teardownInitiated = TRUE]
           a == h.mgr[m].activeTask
       IN IF a # 0
          THEN [h |-> Abort(h1, a), st |-> "tdAbort"]
          ELSE TeardownHook(h1, m)

\* the activeTask field of the object TaskManager returns: the value
\* outerActiveTask had when the object was built, which is null
ActiveTaskField(h, m) == 0

\* -------------------------------------------------------------- ManagerPool
\* managers.has(i) and managers.get(i)
HasManager(h, i) == \E e \in 1 .. Len(h.managers) : h.managers[e].key = i

ManagerAt(h, i) ==
  h.managers[CHOOSE e \in 1 .. Len(h.managers) : h.managers[e].key = i].val

\* managers.delete(i)
DeleteManager(h, i) ==
  [h EXCEPT !.managers = SelectSeq(@, LAMBDA e : e.key # i)]

\* managers.set(i, TaskManager(template, String(i))) for an absent key i
CreateManager(h, i) ==
  LET m == NewManagerId(h) IN
  [h EXCEPT !.mgr[m] = [NoManager EXCEPT !.created = TRUE,
                                         !.entryId = ToString(i)],
            !.managers = Append(@, [key |-> i, val |-> m])]

ManagerKeys(h) == {h.managers[e].key : e \in 1 .. Len(h.managers)}

\* data[i], for the 0-based index i
DataAt(data, i) == IF i < Len(data) THEN data[i + 1] ELSE Undefined

DefinedIndices(data) == {i \in 0 .. Len(data) - 1 : DataAt(data, i) # Undefined}

\* an iteration of the for loop that awaits nothing changes nothing: the
\* first index from i on at which the loop calls a manager
NextOp(h, data, i, maxLength) ==
  LET ops == {j \in i .. maxLength - 1 :
                DataAt(data, j) # Undefined \/ HasManager(h, j)}
  IN IF ops = {} THEN maxLength
     ELSE CHOOSE j \in ops : \A j2 \in ops : j <= j2

\* the for loop of trigger k from index i to its next await, or to its end
Loop(h, tr, i, k) ==
  LET j == NextOp(h, tr.data, i, tr.maxLength) IN
  IF j >= tr.maxLength
  THEN [h |-> h, tr |-> [tr EXCEPT !.pc = "done", !.i = j, !.m = 0, !.t = 0]]
  ELSE IF DataAt(tr.data, j) = Undefined
  THEN LET m == ManagerAt(h, j)
           r == Teardown(h, m)
       IN [h |-> r.h, tr |-> [tr EXCEPT !.pc = r.st, !.i = j, !.m = m, !.t = 0]]
  ELSE LET h1 == IF HasManager(h, j) THEN h ELSE CreateManager(h, j)
           m == ManagerAt(h1, j)
           r == UpdateConfig(h1, m, k, DataAt(tr.data, j))
       IN [h |-> r.h,
           tr |-> [tr EXCEPT !.pc = r.st, !.i = j, !.m = m, !.t = r.t,
                             !.first = (r.st = "awaitDrain" /\ r.first)]]

\* trigger([config, data]) up to its first await; the config of the k-th
\* call is named k
Trigger(h, k, data, alone) ==
  Loop(h,
       [NoTrigger EXCEPT !.data = data, !.alone = alone,
                         !.maxLength = Max(Len(data), Len(h.managers))],
       0, k)

\* the for loop of the pool's teardown to its next await, or to its end:
\* the Map iterator yields the entries in insertion order, those added
\* meanwhile included
PoolTeardownLoop(h, p) ==
  LET left == {e \in 1 .. Len(h.managers) : h.managers[e].val \notin p.visited}
  IN IF left = {}
     THEN [h |-> h, p |-> [p EXCEPT !.pc = "done", !.m = 0, !.t = 0]]
     ELSE LET m == h.managers[CHOOSE e \in left : \A e2 \in left : e <= e2].val
              a == ActiveTaskField(h, m)
              r == Teardown(h, m)
          IN IF a # 0
             THEN [h |-> h,
                   p |-> [p EXCEPT !.pc = "awaitActive", !.m = m, !.t = a,
                                   !.visited = @ \cup {m}]]
             ELSE [h |-> r.h,
                   p |-> [p EXCEPT !.pc = r.st, !.m = m, !.t = 0,
                                   !.visited = @ \cup {m}]]

\* the abort event of template.abortSignal: the listener of every
\* controller createAbortController has made so far aborts it
FireParentAbort(h) ==
  [h EXCEPT !.task = [t \in TaskIds |->
                        IF h.task[t].pc \in {"none", "done"} THEN h.task[t]
                        ELSE [h.task[t] EXCEPT !.aborted = TRUE]]]

\* ------------------------------------------------------------ the job queue
SetHeap(h) == mgr' = h.mgr /\ task' = h.task /\ managers' = h.managers

\* the promise taskPromise of task t has settled: runTask has ended and the
\* finally and catch callbacks have run
Settled(t) == task[t].pc = "done"

\* a PromiseState for a taskPromise without its catch callback
PromiseStateNoCatch(tk) ==
  IF tk.pc = "threw" THEN "rejected" ELSE "fulfilled"

\* the state in which taskPromise settles: finally passes the outcome of
\* runTask on, and the catch callback turns a rejection into undefined
PromiseState(tk) ==
  LET afterFinally == IF tk.pc = "threw" THEN "rejected" ELSE "fulfilled"
  IN IF afterFinally = "rejected" THEN "fulfilled" ELSE afterFinally

\* taskPromise of task t was rejected
Rejected(t) == task[t].pc = "done" /\ task[t].result = "rejected"

\* an OpSettled for a for loop that calls the managers without await
OpSettledNoAwait(k) == trig[k].pc \notin {"idle", "done"}

\* the promise trigger k awaits in its for loop has settled: updateConfig
\* returned undefined, or the task whose promise it returned has settled, or
\* teardown returned
OpSettled(k) ==
  \/ trig[k].pc \in {"awaitUndef", "tdRet"}
  \/ trig[k].pc = "awaitTask" /\ Settled(trig[k].t)

\* a continuation is ready to run
MicrotaskPending ==
  \/ \E t \in TaskIds : task[t].pc \in {"returned", "threw"}
  \/ \E k \in CallIds :
       \/ OpSettled(k)
       \/ trig[k].pc = "tdAbort"
       \/ trig[k].pc = "awaitDrain" /\ Settled(trig[k].t)
  \/ pt.pc \in {"tdAbort", "tdRet"}
  \/ pt.pc = "awaitActive" /\ Settled(pt.t)

\* ------------------------------------------------------------------- watch
Init ==
  /\ template \in PoolTemplates
  /\ parentAborted = FALSE
  /\ mgr = [m \in ManagerIds |-> NoManager]
  /\ task = [t \in TaskIds |-> NoTask]
  /\ managers = <<>>
  /\ trig = [k \in CallIds |-> NoTrigger]
  /\ pt = NoPoolTeardown
  /\ sup = [ready |-> FALSE, terminating |-> FALSE, watcher |-> "open",
            changePending |-> FALSE]
  /\ log = <<>>

\* void managerPool.trigger([config, data]): the next call of trigger
CallTrigger(data) ==
  \E k \in TriggerIds :
    /\ trig[k].pc = "idle"
    /\ \A j \in 1 .. k - 1 : trig[j].pc # "idle"
    /\ LET r == Trigger(Heap, k, data, \A j \in 1 .. k - 1 : trig[j].pc = "done")
       IN SetHeap(r.h) /\ trig' = [trig EXCEPT ![k] = r.tr]

\* a ShutdownCalled without the terminating flag
ShutdownCalledNoFlag(s) ==
  [s EXCEPT !.terminating = TRUE, !.watcher = "closing"]

\* shutdown() up to "await watcher.close()"
ShutdownCalled(s) ==
  IF s.terminating THEN s
  ELSE [s EXCEPT !.terminating = TRUE, !.watcher = "closing"]

\* watcher.on('ready')
WatcherReady(data) ==
  /\ ~sup.ready
  /\ sup.watcher = "open"
  /\ ~MicrotaskPending
  /\ sup' = [sup EXCEPT !.ready = TRUE]
  /\ IF sup.terminating
     THEN UNCHANGED <<mgr, task, managers, trig>>
     ELSE CallTrigger(data)
  /\ UNCHANGED <<template, log, parentAborted, pt>>

\* watcher.on('change'): the debounce timer is (re)started
WatcherChange ==
  /\ sup.watcher # "closed"
  /\ ~sup.changePending
  /\ ~MicrotaskPending
  /\ sup' = [sup EXCEPT !.changePending = TRUE]
  /\ UNCHANGED <<template, log, parentAborted, mgr, task, managers, trig, pt>>

\* the debounced change handler runs
DebouncedChange(data) ==
  /\ sup.changePending
  /\ ~MicrotaskPending
  /\ sup' = [sup EXCEPT !.changePending = FALSE]
  /\ IF sup.ready
     THEN CallTrigger(data)
     ELSE UNCHANGED <<mgr, task, managers, trig>>
  /\ UNCHANGED <<template, log, parentAborted, pt>>

\* the controller's shutdown() is called (SIGINT, SIGTERM), any number of
\* times
Shutdown ==
  /\ sup.ready
  /\ ~MicrotaskPending
  /\ sup' = ShutdownCalled(sup)
  /\ UNCHANGED <<template, log, parentAborted, mgr, task, managers, trig, pt>>

\* watcher.on('error') after ready
WatcherError ==
  /\ sup.ready
  /\ sup.watcher = "open"
  /\ ~MicrotaskPending
  /\ sup' = ShutdownCalled(sup)
  /\ UNCHANGED <<template, log, parentAborted, mgr, task, managers, trig, pt>>

\* the owner of input.abortController aborts it: the listeners of the
\* tasks run, then the listener that calls shutdown()
ParentAbort ==
  /\ ~parentAborted
  /\ ~MicrotaskPending
  /\ parentAborted' = TRUE
  /\ SetHeap(FireParentAbort(Heap))
  /\ sup' = ShutdownCalled(sup)
  /\ UNCHANGED <<template, log, trig, pt>>

\* shutdown() after "await watcher.close()": abortController.abort(), then
\* managerPool.teardown() up to its first await
WatcherClosed ==
  /\ sup.watcher = "closing"
  /\ sup' = [sup EXCEPT !.watcher = "closed"]
  /\ parentAborted' = TRUE
  /\ LET h == IF parentAborted THEN Heap ELSE FireParentAbort(Heap)
         live == {h.mgr[h.managers[e].val].activeTask :
                    e \in 1 .. Len(h.managers)} \ {0}
         r == PoolTeardownLoop(h, [NoPoolTeardown EXCEPT !.activeAtStart = live])
     IN SetHeap(r.h) /\ pt' = r.p
  /\ UNCHANGED <<template, log, trig>>

\* ----------------------------------------------------------- runTask steps
\* the launch of task t settles
LaunchReturns(t, outcome) ==
  /\ task[t].pc = "launching"
  /\ outcome = "abort" => task[t].aborted
  /\ (outcome = "error" /\ template.persistent) =>
       task[t].failedAttempts < MaxAttempts
  /\ task' = [task EXCEPT ![t] = AfterLaunch(task[t], outcome)]
  /\ UNCHANGED <<template, log, parentAborted, mgr, managers, trig, pt, sup>>

\* the backoff timer of task t expires
SleepExpires(t) ==
  /\ task[t].pc = "sleeping"
  /\ ~MicrotaskPending
  /\ task' = [task EXCEPT ![t] = AfterSleep(task[t])]
  /\ UNCHANGED <<template, log, parentAborted, mgr, managers, trig, pt, sup>>

\* a TaskFinally whose finally callback does not compare the task ids
TaskFinallyNoIdCheck(t) ==
  /\ task[t].pc \in {"returned", "threw"}
  /\ task' = [task EXCEPT ![t] = [NoTask EXCEPT !.pc = "done",
                                                !.mgr = task[t].mgr,
                                                !.result = PromiseState(task[t])]]
  /\ mgr' = [mgr EXCEPT ![task[t].mgr].activeTask = 0]
  /\ UNCHANGED <<template, log, parentAborted, managers, trig, pt, sup>>

\* the finally callback of taskPromise, then the catch callback
TaskFinally(t) ==
  /\ task[t].pc \in {"returned", "threw"}
  /\ task' = [task EXCEPT ![t] = [NoTask EXCEPT !.pc = "done",
                                                !.mgr = task[t].mgr,
                                                !.result = PromiseState(task[t])]]
  /\ mgr' = IF mgr[task[t].mgr].activeTask = t
            THEN [mgr EXCEPT ![task[t].mgr].activeTask = 0]
            ELSE mgr
  /\ UNCHANGED <<template, log, parentAborted, managers, trig, pt, sup>>

\* ------------------------------------------------------- TaskManager steps
\* updateConfig resumes after "await outerActiveTask.promise"
UpdateResume(k) ==
  /\ trig[k].pc = "awaitDrain"
  /\ Settled(trig[k].t)
  /\ LET r == StartTask(Heap, trig[k].m, trig[k].first, k,
                        DataAt(trig[k].data, trig[k].i))
     IN /\ SetHeap(r.h)
        /\ trig' = [trig EXCEPT ![k].pc = r.st, ![k].t = r.t, ![k].first = FALSE]
  /\ UNCHANGED <<template, log, parentAborted, pt, sup>>

\* teardown, called by trigger k, resumes after "await ...abort()"
TriggerTeardownResume(k) ==
  /\ trig[k].pc = "tdAbort"
  /\ LET r == TeardownHook(Heap, trig[k].m)
     IN SetHeap(r.h) /\ trig' = [trig EXCEPT ![k].pc = r.st]
  /\ UNCHANGED <<template, log, parentAborted, pt, sup>>

\* the teardown hook invoked for trigger k settles
TriggerHookReturns(k) ==
  /\ trig[k].pc = "tdHook"
  /\ trig' = [trig EXCEPT ![k].pc = "tdRet"]
  /\ UNCHANGED <<template, log, parentAborted, mgr, task, managers, pt, sup>>

\* ------------------------------------------------------- ManagerPool steps
\* trigger k resumes after the await of its operation on slot i; a rejected
\* promise throws into the catch block of trigger, which logs and returns
TriggerResume(k) ==
  /\ OpSettled(k)
  /\ LET tr == trig[k]
         h == IF tr.pc = "tdRet"
              THEN DeleteManager(
                     [Heap EXCEPT !.mgr[tr.m].teardownReturned = TRUE], tr.i)
              ELSE Heap
         r == IF tr.pc = "awaitTask" /\ Rejected(tr.t)
              THEN [h |-> h, tr |-> [tr EXCEPT !.pc = "done", !.m = 0, !.t = 0]]
              ELSE Loop(h, tr, tr.i + 1, k)
     IN SetHeap(r.h) /\ trig' = [trig EXCEPT ![k] = r.tr]
  /\ UNCHANGED <<template, log, parentAborted, pt, sup>>

\* the pool's teardown resumes after an await
PoolTeardownResume ==
  /\ \/ pt.pc \in {"tdAbort", "tdRet"}
     \/ pt.pc = "awaitActive" /\ Settled(pt.t)
  /\ LET r == IF pt.pc = "tdAbort"
              THEN LET x == TeardownHook(Heap, pt.m)
                   IN [h |-> x.h, p |-> [pt EXCEPT !.pc = x.st]]
              ELSE IF pt.pc = "awaitActive"
              THEN LET x == Teardown(Heap, pt.m)
                   IN [h |-> x.h, p |-> [pt EXCEPT !.pc = x.st, !.t = 0]]
              ELSE PoolTeardownLoop(
                     [Heap EXCEPT !.mgr[pt.m].teardownReturned = TRUE], pt)
     IN SetHeap(r.h) /\ pt' = r.p
  /\ UNCHANGED <<template, log, parentAborted, trig, sup>>

\* the teardown hook invoked for the pool's teardown settles
PoolHookReturns ==
  /\ pt.pc = "tdHook"
  /\ pt' = [pt EXCEPT !.pc = "tdRet"]
  /\ UNCHANGED <<template, log, parentAborted, mgr, task, managers, trig, sup>>

Outcomes == {"ok", "error", "abort"}

Next ==
  \/ \E data \in DataVectors : WatcherReady(data)
  \/ WatcherChange
  \/ \E data \in DataVectors : DebouncedChange(data)
  \/ Shutdown
  \/ WatcherError
  \/ ParentAbort
  \/ WatcherClosed
  \/ \E t \in TaskIds, outcome \in Outcomes : LaunchReturns(t, outcome)
  \/ \E t \in TaskIds : SleepExpires(t)
  \/ \E t \in TaskIds : TaskFinally(t)
  \/ \E k \in CallIds : UpdateResume(k)
  \/ \E k \in CallIds : TriggerTeardownResume(k)
  \/ \E k \in CallIds : TriggerHookReturns(k)
  \/ \E k \in CallIds : TriggerResume(k)
  \/ PoolTeardownResume
  \/ PoolHookReturns

Spec == Init /\ [][Next]_vars

\* ---------------------------------------------------- a TaskManager alone
\* One TaskManager and its callers.  A caller is any job: the pool's trigger
\* calls the manager of a slot above 0 from the continuation of its await on
\* the slot below, so that a call may arrive between any two continuations.
TheManager == 1

InitManager ==
  /\ template \in Templates
  /\ parentAborted = FALSE
  /\ mgr = [m \in ManagerIds |->
              IF m = TheManager
              THEN [NoManager EXCEPT !.created = TRUE, !.entryId = ToString(0)]
              ELSE NoManager]
  /\ task = [t \in TaskIds |-> NoTask]
  /\ managers = <<>>
  /\ trig = [k \in CallIds |-> NoTrigger]
  /\ pt = NoPoolTeardown
  /\ sup = [ready |-> FALSE, terminating |-> FALSE, watcher |-> "open",
            changePending |-> FALSE]
  /\ log = <<>>

NextCall(k) ==
  /\ k <= MaxCalls
  /\ trig[k].pc = "idle"
  /\ \A j \in 1 .. k - 1 : trig[j].pc # "idle"

\* "await manager.updateConfig(config, data)" by the k-th caller
DirectUpdate(k, data) ==
  /\ NextCall(k)
  /\ LET r == UpdateConfig(Heap, TheManager, k, data)
     IN /\ SetHeap(r.h)
        /\ trig' = [trig EXCEPT ![k] =
                      [NoTrigger EXCEPT !.pc = r.st, !.data = <<data>>,
                                        !.maxLength = 1, !.m = TheManager,
                                        !.t = r.t,
                                        !.first = (r.st = "awaitDrain" /\ r.first)]]
  /\ UNCHANGED <<template, log, parentAborted, pt, sup>>

\* "await manager.teardown()" by the k-th caller
DirectTeardown(k) ==
  /\ NextCall(k)
  /\ LET r == Teardown(Heap, TheManager)
     IN /\ SetHeap(r.h)
        /\ trig' = [trig EXCEPT ![k] =
                      [NoTrigger EXCEPT !.pc = r.st, !.data = <<Undefined>>,
                                        !.maxLength = 1, !.m = TheManager]]
  /\ UNCHANGED <<template, log, parentAborted, pt, sup>>

NextManager ==
  \/ \E k \in CallIds, data \in DataValues : DirectUpdate(k, data)
  \/ \E k \in CallIds : DirectTeardown(k)
  \/ ParentAbort
  \/ \E t \in TaskIds, outcome \in Outcomes : LaunchReturns(t, outcome)
  \/ \E t \in TaskIds : SleepExpires(t)
  \/ \E t \in TaskIds : TaskFinally(t)
  \/ \E k \in CallIds : UpdateResume(k)
  \/ \E k \in CallIds : TriggerTeardownResume(k)
  \/ \E k \in CallIds : TriggerHookReturns(k)
  \/ \E k \in CallIds : TriggerResume(k)

SpecManager == InitManager /\ [][NextManager]_vars

\* ------------------------------------- a burst of updates on a TaskManager
\* An interruptible TaskManager whose first updateConfig call starts a task
\* and whose later calls all arrive while that task is the active one: the
\* second call is queued behind it, the others find it queued.
InitBurst == InitManager /\ template.interruptible

BurstUpdate(k, data) ==
  /\ k > 1 => mgr[TheManager].activeTask = 1
  /\ DirectUpdate(k, data)

NextBurst ==
  \/ \E k \in CallIds, data \in DataValues : BurstUpdate(k, data)
  \/ ParentAbort
  \/ \E t \in TaskIds, outcome \in Outcomes : LaunchReturns(t, outcome)
  \/ \E t \in TaskIds : SleepExpires(t)
  \/ \E t \in TaskIds : TaskFinally(t)
  \/ \E k \in CallIds : UpdateResume(k)
  \/ \E k \in CallIds : TriggerResume(k)

SpecBurst == InitBurst /\ [][NextBurst]_vars

\* ------------------------------------------------------ a ManagerPool alone
\* One ManagerPool whose trigger is called up to MaxCalls times, as the
\* supervisor's handlers call it: from a job of its own, without awaiting
\* the call before.  The data vectors have at most one slot.
SlotVectors == {d \in DataVectors : Len(d) <= 1}

SlotTrigger(data) ==
  /\ ~MicrotaskPending
  /\ \E k \in CallIds :
       /\ NextCall(k)
       /\ LET r == Trigger(Heap, k, data, \A j \in 1 .. k - 1 : trig[j].pc = "done")
          IN SetHeap(r.h) /\ trig' = [trig EXCEPT ![k] = r.tr]
  /\ UNCHANGED <<template, log, parentAborted, pt, sup>>

NextPool ==
  \/ \E data \in SlotVectors : SlotTrigger(data)
  \/ \E t \in TaskIds, outcome \in Outcomes : LaunchReturns(t, outcome)
  \/ \E t \in TaskIds : SleepExpires(t)
  \/ \E t \in TaskIds : TaskFinally(t)
  \/ \E k \in CallIds : UpdateResume(k)
  \/ \E k \in CallIds : TriggerTeardownResume(k)
  \/ \E k \in CallIds : TriggerHookReturns(k)
  \/ \E k \in CallIds : TriggerResume(k)

SpecPool == Init /\ [][NextPool]_vars

\* ------------------------------------------------------------ runTask alone
\* One call of runTask, with its abort controller and its template's launch:
\* log records, in order, every launch invocation (with its attempt), what
\* each launch did, and every backoff wait (with its delay in ms).
RetryTemplates ==
  [interruptible : {TRUE}, persistent : BOOLEAN, hasTeardown : {FALSE},
   retries : 0 .. MaxRetriesAlone,
   factor : {Unset, <<1>>, <<3>>}, minTimeout : {Unset, <<10>>},
   maxTimeout : {Unset, <<25>>}]

TheTask == 1

\* what runTask does on reaching the await it stops at in tk
Observed(tk) ==
  IF tk.pc = "launching" THEN <<[ev |-> "launch", n |-> tk.failedAttempts]>>
  ELSE IF tk.pc = "sleeping" THEN <<[ev |-> "wait", n |-> tk.delay]>>
  ELSE <<>>

InitRetry ==
  /\ template \in RetryTemplates
  /\ parentAborted = FALSE
  /\ mgr = [m \in ManagerIds |-> NoManager]
  /\ task = [t \in TaskIds |->
               IF t = TheTask
               THEN LoopTop([NoTask EXCEPT !.first = TRUE, !.config = 1,
                                           !.data = "a"])
               ELSE NoTask]
  /\ managers = <<>>
  /\ trig = [k \in CallIds |-> NoTrigger]
  /\ pt = NoPoolTeardown
  /\ sup = [ready |-> FALSE, terminating |-> FALSE, watcher |-> "open",
            changePending |-> FALSE]
  /\ log = <<[ev |-> "launch", n |-> 0]>>

RetryLaunchReturns(outcome) ==
  /\ task[TheTask].pc = "launching"
  /\ outcome = "abort" => task[TheTask].aborted
  /\ template.persistent => Len(log) < MaxLog
  /\ LET tk == AfterLaunch(task[TheTask], outcome)
     IN /\ task' = [task EXCEPT ![TheTask] = tk]
        /\ log' = log \o <<[ev |-> outcome, n |-> 0]>> \o Observed(tk)
  /\ UNCHANGED <<template, parentAborted, mgr, managers, trig, pt, sup>>

RetrySleepExpires ==
  /\ task[TheTask].pc = "sleeping"
  /\ LET tk == AfterSleep(task[TheTask])
     IN /\ task' = [task EXCEPT ![TheTask] = tk]
        /\ log' = log \o Observed(tk)
  /\ UNCHANGED <<template, parentAborted, mgr, managers, trig, pt, sup>>

\* the task's abort controller is aborted (by updateConfig, by teardown, or
\* by the parent signal)
RetryAbort ==
  /\ ~task[TheTask].aborted
  /\ ~RetryLoopEnded(task[TheTask])
  /\ task' = [task EXCEPT ![TheTask].aborted = TRUE]
  /\ UNCHANGED <<template, parentAborted, mgr, managers, trig, pt, sup, log>>

NextRetry ==
  \/ \E outcome \in Outcomes : RetryLaunchReturns(outcome)
  \/ RetrySleepExpires
  \/ RetryAbort

SpecRetry == InitRetry /\ [][NextRetry]_vars

\* ================================================================== claims
\* the launch invocations of manager m that have not settled
LaunchesInFlight(m) ==
  {t \in TaskIds : task[t].mgr = m /\ task[t].pc = "launching"}

\* a step invokes template.launch for task t
LaunchInvoked(t) == task[t].pc # "launching" /\ task'[t].pc = "launching"

\* C1: at most one launch invocation of a TaskManager is in flight at any
\* time, for every interleaving of updateConfig calls, task completions,
\* parent cancellation and teardown.
C1_AtMostOneLaunchInFlight ==
  \A m \in ManagerIds : Cardinality(LaunchesInFlight(m)) <= 1

\* C2: once teardown() of a TaskManager has returned, no step invokes
\* template.launch for a task of that manager.
C2_NoLaunchAfterTeardown ==
  [][\A t \in TaskIds :
       LaunchInvoked(t) => ~mgr[task'[t].mgr].teardownReturned]_vars

\* C3: the pool's teardown has invoked teardown() only of managers whose
\* task, if one was active when the pool's teardown began, has ended its
\* retry loop.
C3_PoolTeardownAfterTasks ==
  \A m \in pt.visited :
    (pt.pc = "awaitActive" /\ pt.m = m) \/
    \A t \in pt.activeAtStart : task[t].mgr = m => RetryLoopEnded(task[t])

\* C4: when trigger removes a slot, the teardown hook is invoked only after
\* the manager's active task has ended its retry loop, and never while a
\* launch of that manager is in flight.
C4_HookAfterTaskOnRemoval ==
  [][\A k \in TriggerIds :
       (trig[k].pc # "tdHook" /\ trig'[k].pc = "tdHook") =>
         LET m == trig'[k].m IN
         /\ mgr[m].activeTask # 0 => RetryLoopEnded(task[mgr[m].activeTask])
         /\ LaunchesInFlight(m) = {}]_vars

\* trigger call k, like every call before it, began after all earlier calls
\* had returned, and no later call has begun
LastOfSequentialCalls(k) ==
  /\ trig[k].pc = "done"
  /\ \A j \in 1 .. k : trig[j].alone
  /\ \A j \in TriggerIds : j > k => trig[j].pc = "idle"

\* C5: after each of a sequence of non-overlapping trigger calls returns,
\* the keys of the managers map are exactly the indices at which that
\* call's data is defined.
C5_KeysAreDefinedIndices ==
  \A k \in TriggerIds :
    LastOfSequentialCalls(k) => ManagerKeys(Heap) = DefinedIndices(trig[k].data)

\* the operation trigger k awaits has completed: the updateConfig call
\* returned undefined, or the task whose promise it returned has settled, or
\* the teardown call returned
OpCompleted(k) ==
  \/ trig[k].pc \in {"awaitUndef", "tdRet"}
  \/ trig[k].pc = "awaitTask" /\ task[trig[k].t].pc = "done"

\* C6: within one trigger call the slot operations are applied in strictly
\* ascending index order, one at a time: whenever the call goes on (to a
\* higher slot or to its end), the operation it started last has completed.
C6_SlotsInOrder ==
  [][\A k \in TriggerIds :
       (trig[k].pc \notin {"idle", "done"} /\ trig'[k] # trig[k]
          /\ (trig'[k].i # trig[k].i \/ trig'[k].pc = "done")) =>
         /\ trig'[k].i > trig[k].i
         /\ OpCompleted(k)]_vars

\* a trigger call has completed its operation on slot 0 and started a task on
\* slot 1
C6_Witness ==
  \E k \in TriggerIds :
    /\ trig[k].i = 1 /\ trig[k].pc = "awaitTask"
    /\ DataAt(trig[k].data, 0) # Undefined

\* C7: an updateConfig call that has started its task has returned to its
\* caller: its promise is settled whether or not the task has ended.
C7_UpdateConfigReturnsAtStart ==
  \A k \in CallIds : trig[k].pc = "awaitTask" => OpSettled(k)

\* C8: a trigger call with slots still to visit never waits for a launch to
\* return: it is not suspended on a task whose launch is in flight.
C8_TriggerNeverWaitsForLaunch ==
  \A k \in TriggerIds :
    (trig[k].pc = "awaitTask"
       /\ NextOp(Heap, trig[k].data, trig[k].i + 1, trig[k].maxLength)
            < trig[k].maxLength)
    => task[trig[k].t].pc # "launching"

\* C10: a task whose cancellation is signalled during its backoff wait does
\* not invoke launch again.
C10_NoLaunchAfterAbortedWait ==
  [][\A t \in TaskIds :
       (task[t].pc = "sleeping" /\ task[t].aborted) =>
         task'[t].pc # "launching"]_vars

\* the delay before attempt k as the claim states it, the defaults being
\* factor 2, minTimeout 1000 ms and maxTimeout 30000 ms
ClaimedDelay(k) ==
  LET factor == IF template.factor = <<>> THEN 2 ELSE template.factor[1]
      minTimeout == IF template.minTimeout = <<>> THEN 1000
                    ELSE template.minTimeout[1]
      maxTimeout == IF template.maxTimeout = <<>> THEN 30000
                    ELSE template.maxTimeout[1]
  IN IF k * factor * minTimeout <= maxTimeout THEN k * factor * minTimeout
     ELSE maxTimeout

\* the run the claim states for a launch that always fails: attempts k .. R,
\* each but attempt 0 preceded by one wait
RECURSIVE FailingRun(_, _)
FailingRun(k, R) ==
  IF k > R THEN <<>>
  ELSE (IF k = 0 THEN <<>> ELSE <<[ev |-> "wait", n |-> ClaimedDelay(k)]>>)
       \o <<[ev |-> "launch", n |-> k], [ev |-> "error", n |-> 0]>>
       \o FailingRun(k + 1, R)

IsPrefix(a, b) == Len(a) <= Len(b) /\ SubSeq(b, 1, Len(a)) = a

\* non-persistent, never cancelled, and every launch so far has failed with
\* an error that is no cancellation
AlwaysFailing ==
  /\ ~template.persistent
  /\ ~task[TheTask].aborted
  /\ \A e \in 1 .. Len(log) : log[e].ev \notin {"ok", "abort"}

\* C9: with retries = R, a launch that always fails and no cancellation,
\* runTask invokes launch with attempts 0 .. R, waits
\* min(k * factor * minTimeout, maxTimeout) ms once before each attempt
\* k >= 1 and not before attempt 0, and then ends in failure.
C9_RetryArithmetic ==
  AlwaysFailing =>
    LET run == FailingRun(0, template.retries) IN
    /\ IsPrefix(log, run)
    /\ RetryLoopEnded(task[TheTask]) <=> log = run
    /\ RetryLoopEnded(task[TheTask]) =>
         task[TheTask].pc = "threw" /\ task[TheTask].result = "failed"

\* a failing run of R + 1 >= 3 launches has ended, its last delay capped by
\* maxTimeout
C9_Witness ==
  /\ AlwaysFailing
  /\ template.retries >= 2 /\ template.factor = <<3>>
  /\ template.minTimeout = <<10>> /\ template.maxTimeout = <<25>>
  /\ task[TheTask].pc = "threw"
  /\ Len(log) = 3 * (template.retries + 1) - 1

\* C11: once the parent signal has fired, the signal of every active task
\* record is aborted, a record created after the parent fired included.
C11_ParentAbortReachesEveryRecord ==
  parentAborted =>
    \A m \in ManagerIds :
      mgr[m].activeTask # 0 => task[mgr[m].activeTask].aborted

\* trigger or caller k calls updateConfig in this step, not teardown
UpdateArrives(k) ==
  /\ trig[k].pc = "idle" /\ trig'[k].pc # "idle"
  /\ DataAt(trig'[k].data, 0) # Undefined

\* C12: at most one updateConfig call of a manager is suspended behind the
\* in-flight task, and a call that arrives while one is suspended returns
\* without starting a task.
C12_AtMostOneQueued ==
  [][\A m \in ManagerIds :
       LET waiting == {j \in CallIds : trig[j].pc = "awaitDrain" /\ trig[j].m = m}
       IN /\ Cardinality(waiting) <= 1
          /\ \A k \in CallIds :
               (waiting # {} /\ UpdateArrives(k) /\ trig'[k].m = m) =>
                 trig'[k].pc = "awaitUndef"]_vars

\* the runTask invocations made so far
TasksStarted == {t \in TaskIds : task[t].pc # "none"}

\* every call of the burst has been made and has returned
BurstOver == \A k \in 1 .. MaxCalls : trig[k].pc = "done"

\* C13 as stated: after a burst of updates that arrive while one task is
\* active, the first of them queued behind it, an interruptible manager has
\* started two further tasks after that one.
C13_TwoFurtherTasks ==
  BurstOver => Cardinality(TasksStarted) = 1 + 2

\* C13 amended: it has started exactly one further task, that of the queued
\* update; the updates that found one queued started none.
C13_OneFurtherTask ==
  BurstOver =>
    /\ Cardinality(TasksStarted) = 1 + 1
    /\ \A t \in TasksStarted : task[t].pc = "done"

\* a burst of at least three updates is over
C13_Witness == BurstOver /\ MaxCalls >= 3 /\ Cardinality(TasksStarted) = 2

\* runTask is invoked for task t in this step
TaskStarts(t) == task[t].pc = "none" /\ task'[t].pc # "none"

\* an update that arrives while a task is active and nothing is queued
\* aborts that task and waits for it, starting nothing
InterruptOnArrival(k) ==
  LET m == trig'[k].m
      a == mgr[m].activeTask
  IN (UpdateArrives(k) /\ a # 0 /\ ~task[a].queued) =>
       /\ task'[a].aborted
       /\ trig'[k].pc = "awaitDrain" /\ trig'[k].t = a
       /\ \A t \in TaskIds : ~TaskStarts(t)

\* the waiting call k goes on in this step
Resumes(k) == trig[k].pc = "awaitDrain" /\ trig'[k] # trig[k]

\* call k starts exactly one task in this step, whose first launch has
\* first = false, attempt = 0 and the config and data of call k
StartsItsTask(k) ==
  \E t \in TaskIds :
    /\ TaskStarts(t)
    /\ \A u \in TaskIds \ {t} : ~TaskStarts(u)
    /\ trig'[k].pc = "awaitTask" /\ trig'[k].t = t
    /\ mgr'[trig[k].m].activeTask = t
    /\ task'[t].pc = "launching"
    /\ task'[t].first = FALSE
    /\ task'[t].failedAttempts = 0
    /\ task'[t].config = k
    /\ task'[t].data = DataAt(trig[k].data, trig[k].i)

\* no task is started but by an updateConfig call that arrives or resumes
OnlyUpdatesStartTasks ==
  \A t \in TaskIds :
    TaskStarts(t) =>
      \E k \in CallIds :
        /\ trig[k].pc \in {"idle", "awaitDrain"}
        /\ trig'[k].pc = "awaitTask" /\ trig'[k].t = t

AbortSignalled(t) == ~task[t].aborted /\ task'[t].aborted

\* C15: with interruptible = false, a task's cancellation is signalled only
\* in a step in which the parent signal fires or teardown() of its manager
\* sets its latch; an update that arrives while a task is active signals
\* nothing and starts nothing, and if it waits it goes on only when that
\* task's retry loop has ended.
C15_NonInterruptibleNeverAborts ==
  [][~template.interruptible =>
       /\ \A t \in TaskIds :
            AbortSignalled(t) =>
              \/ ~parentAborted /\ parentAborted'
              \/ /\ ~mgr[task[t].mgr].teardownInitiated
                 /\ mgr'[task[t].mgr].teardownInitiated
       /\ \A k \in CallIds :
            (UpdateArrives(k) /\ mgr[trig'[k].m].activeTask # 0) =>
              /\ \A t \in TaskIds : ~AbortSignalled(t) /\ ~TaskStarts(t)
              /\ trig'[k].pc \in {"awaitDrain", "awaitUndef"}
       /\ \A k \in CallIds :
            Resumes(k) => RetryLoopEnded(task[trig[k].t])]_vars

\* an update waits behind a task of a non-interruptible manager that has
\* completed without having been aborted
C15_Witness ==
  /\ ~template.interruptible
  /\ \E k \in CallIds :
       /\ trig[k].pc = "awaitDrain"
       /\ task[trig[k].t].pc = "returned"
       /\ task[trig[k].t].result = "completed"
       /\ ~task[trig[k].t].aborted

\* C16: in persistent mode the retry loop ends only by returning as
\* aborted, its signal being aborted; after a launch that returned or
\* failed while the signal was not aborted the loop waits and then invokes
\* launch again, whatever retry.retries is, and it never throws.
C16_PersistentEndsOnlyByAbort ==
  [][template.persistent =>
       LET tk == task[TheTask]
           tk2 == task'[TheTask]
       IN /\ tk2.pc # "threw"
          /\ RetryLoopEnded(tk2) => tk2.aborted /\ tk2.result = "aborted"
          /\ (tk.pc = "launching" /\ ~tk.aborted /\ tk2.pc # "launching") =>
               tk2.pc = "sleeping"
          /\ (tk.pc = "sleeping" /\ tk2.pc # "sleeping") =>
               tk2.pc = "launching"]_vars

\* a persistent task with retries = 0 whose launch failed and, later, whose
\* launch returned, is launched once more
C16_Witness ==
  /\ template.persistent /\ template.retries = 0
  /\ ~task[TheTask].aborted /\ task[TheTask].pc = "launching"
  /\ \E e, f \in 1 .. Len(log) :
       e < f /\ log[e].ev = "error" /\ log[f].ev = "ok"

\* the launch of the task returns normally in this step
LaunchReturnsNormally ==
  Len(log') > Len(log) /\ log'[Len(log) + 1].ev = "ok"

\* C17: in persistent mode, when a launch returns normally (its signal not
\* aborted) the next launch is invoked in the same step, without a backoff
\* wait, and with attempt 0.
C17_PersistentRelaunchAtOnce ==
  [][(template.persistent /\ ~task[TheTask].aborted /\ LaunchReturnsNormally) =>
       /\ task'[TheTask].pc = "launching"
       /\ task'[TheTask].failedAttempts = 0]_vars

\* the launch of the task throws an AbortError in this step
LaunchThrowsAbort ==
  Len(log') > Len(log) /\ log'[Len(log) + 1].ev = "abort"

\* C18: when launch throws an AbortError the retry loop returns in the same
\* step, as aborted and not in failure, without a wait or a launch, whatever
\* retries remain and whether or not the template is persistent; and a loop
\* that has ended does nothing more.
C18_AbortErrorEndsLoop ==
  [][/\ LaunchThrowsAbort =>
          /\ task'[TheTask].pc = "returned"
          /\ task'[TheTask].result = "aborted"
          /\ Len(log') = Len(log) + 1
     /\ RetryLoopEnded(task[TheTask]) =>
          task'[TheTask] = task[TheTask] /\ log' = log]_vars

\* the second launch of a task with three retries threw an AbortError
C18_Witness ==
  /\ template.retries = 3 /\ ~template.persistent
  /\ task[TheTask].failedAttempts = 1
  /\ task[TheTask].pc = "returned"
  /\ Len(log) > 0 /\ log[Len(log)].ev = "abort"

\* C19: the promise of a task, which updateConfig returns and trigger
\* awaits, is never rejected, also when the retries are exhausted; when the
\* promise of a failed task settles the task is no longer the manager's
\* active record, the record being null if it was; and an update that
\* finds no active record (and no teardown) starts a task at once.
C19_TaskFailureNeverPropagates ==
  [][/\ \A t \in TaskIds :
          task'[t].pc = "done" => task'[t].result = "fulfilled"
     /\ \A t \in TaskIds :
          (task[t].pc = "threw" /\ task'[t].pc = "done") =>
            LET m == task[t].mgr IN
            /\ mgr'[m].activeTask # t
            /\ mgr[m].activeTask = t => mgr'[m].activeTask = 0
     /\ \A k \in CallIds :
          LET m == trig'[k].m IN
          (UpdateArrives(k) /\ mgr[m].activeTask = 0
             /\ ~mgr[m].teardownInitiated) =>
            /\ trig'[k].pc = "awaitTask"
            /\ TaskStarts(trig'[k].t)
            /\ task'[trig'[k].t].pc = "launching"
            /\ mgr'[m].activeTask = trig'[k].t]_vars

\* the retries of the active task are exhausted: its retry loop has thrown
\* and the updateConfig call that started it awaits its promise
C19_Witness ==
  \E t \in TaskIds :
    /\ task[t].pc = "threw" /\ task[t].result = "failed"
    /\ mgr[task[t].mgr].activeTask = t
    /\ \E k \in CallIds : trig[k].pc = "awaitTask" /\ trig[k].t = t

\* trigger or caller k calls teardown() of manager m in this step
TeardownCalled(k, m) ==
  /\ trig'[k].pc \in {"tdAbort", "tdHook", "tdRet"}
  /\ trig'[k].m = m
  /\ trig[k].pc = "idle" \/ trig'[k].i # trig[k].i

\* C20: the teardown hook of a manager is invoked at most once, and a
\* teardown() call on a manager whose latch is set returns at once and
\* changes nothing: neither the manager nor any of its tasks (no second
\* cancellation, no second hook).
C20_TeardownIdempotent ==
  [][\A m \in ManagerIds :
       /\ mgr'[m].hookCalls <= 1
       /\ \A k \in CallIds :
            (mgr[m].teardownInitiated /\ TeardownCalled(k, m)) =>
              /\ trig'[k].pc = "tdRet"
              /\ mgr'[m] = mgr[m]
              /\ \A t \in TaskIds : task[t].mgr = m => task'[t] = task[t]]_vars

\* two teardown() calls on one manager: the first awaits the hook, the
\* second has returned
C20_Witness ==
  \E j, k \in CallIds :
    /\ j # k /\ trig[j].m = trig[k].m
    /\ trig[j].pc = "tdHook" /\ trig[k].pc = "tdRet"
    /\ mgr[trig[j].m].hookCalls = 1

\* C21: once the pool's teardown has returned, teardown() of every manager
\* the pool has held has been called, those a trigger call in progress has
\* inserted included (and by C20 its effect took place once).
C21_PoolTeardownReachesEveryManager ==
  pt.pc = "done" =>
    \A m \in ManagerIds :
      mgr[m].created => mgr[m].teardownInitiated /\ mgr[m].hookCalls <= 1

\* C22: whatever the order of shutdown() calls, the root signal firing and
\* watcher errors, the shutdown sequence runs once: the watcher goes from
\* open to closing only in the step that sets terminating, and from closing
\* to closed once, in the step that has the root signal aborted and invokes
\* the pool's teardown; the pool's teardown is invoked in no other step and
\* never again; a request made while terminating is set changes nothing.
C22_ShutdownOnce ==
  [][/\ sup.terminating => sup'.terminating
     /\ parentAborted => parentAborted'
     /\ sup'.watcher # sup.watcher =>
          IF sup.watcher = "open"
          THEN sup'.watcher = "closing" /\ ~sup.terminating /\ sup'.terminating
          ELSE /\ sup.watcher = "closing" /\ sup'.watcher = "closed"
               /\ parentAborted'
               /\ pt.pc = "idle" /\ pt'.pc # "idle"
     /\ (pt.pc = "idle" /\ pt' # pt) =>
          sup.watcher = "closing" /\ sup'.watcher = "closed"
     /\ pt.pc # "idle" =>
          pt'.pc # "idle" /\ pt.visited \subseteq pt'.visited]_vars

\* the shutdown sequence has run to its end with a manager in the pool
C22_Witness ==
  /\ sup.terminating /\ sup.watcher = "closed" /\ parentAborted
  /\ pt.pc = "done" /\ pt.visited # {}

\* the promise of task t settles in this step
Settles(t) == task[t].pc \in {"returned", "threw"} /\ task'[t].pc = "done"

\* C23: the active record of a manager, if not null, is a task whose promise
\* has not settled; and when the promise of a task settles, the active
\* record becomes null if it was that task and is left alone if it is
\* another one.
C23_ActiveIsUnsettled ==
  [][\A m \in ManagerIds :
       /\ mgr[m].activeTask # 0 => ~Settled(mgr[m].activeTask)
       /\ mgr'[m].activeTask # 0 => task'[mgr'[m].activeTask].pc # "done"
       /\ \A t \in TaskIds :
            (Settles(t) /\ task[t].mgr = m) =>
              mgr'[m].activeTask =
                IF mgr[m].activeTask = t THEN 0 ELSE mgr[m].activeTask]_vars

\* the retry loop of a task has ended while the active record of its
\* manager is a newer task
C23_Witness ==
  \E t, u \in TaskIds :
    /\ t < u /\ task[t].mgr = task[u].mgr
    /\ task[t].pc \in {"returned", "threw"}
    /\ mgr[task[t].mgr].activeTask = u

\* the task the first updateConfig call of manager m started: a new manager
\* has no active task and no latch, so that its first call starts a task at
\* once, the first of the manager
FirstTaskOf(tasks, m) ==
  LET ts == {t \in TaskIds : tasks[t].pc # "none" /\ tasks[t].mgr = m}
  IN IF ts = {} THEN 0 ELSE CHOOSE t \in ts : \A u \in ts : t <= u

\* the ready handler calls trigger on data ["a"] in this step
ReadyOnA ==
  ~sup.ready /\ sup'.ready /\ ~sup.terminating /\ trig'[1].data = <<"a">>

\* C24: every launch of the task started by a manager's first updateConfig
\* call, retries and persistent re-runs included, has first = true, and
\* every launch of a task started by a later update has first = false; the
\* launch the ready handler invokes on data ["a"] has first = true,
\* attempt = 0, entryId = "0" and data = "a".
C24_FirstOnlyInFirstTask ==
  [][/\ \A t \in TaskIds :
          LaunchInvoked(t) =>
            (task'[t].first <=> t = FirstTaskOf(task', task'[t].mgr))
     /\ ReadyOnA =>
          /\ LaunchInvoked(1)
          /\ \A t \in TaskIds \ {1} : ~LaunchInvoked(t)
          /\ task'[1].first /\ task'[1].failedAttempts = 0
          /\ task'[1].data = "a"
          /\ mgr'[task'[1].mgr].entryId = "0"]_vars

\* the launch of a task a later update started on a manager is in flight,
\* with first = false
C24_Witness ==
  \E t, u \in TaskIds :
    /\ t < u /\ task[t].pc # "none" /\ task[t].mgr = task[u].mgr
    /\ task[u].pc = "launching" /\ ~task[u].first

\* C25: in a manager with interruptible = false and persistent = true that
\* has an active task, an updateConfig call returns at once and changes
\* nothing but the firstEvent latch: no task, hence neither the active
\* record's signal nor its queued flag, and no other field of the manager;
\* a call that has returned starts no task later.
C25_PersistentIgnoresUpdate ==
  [][(~template.interruptible /\ template.persistent) =>
       /\ \A k \in CallIds :
            LET m == trig'[k].m IN
            (UpdateArrives(k) /\ mgr[m].activeTask # 0) =>
              /\ trig'[k].pc = "awaitUndef"
              /\ task' = task
              /\ mgr' = [mgr EXCEPT ![m].firstEvent = FALSE]
       /\ \A k \in CallIds :
            trig[k].pc = "awaitUndef" =>
              /\ trig'[k].pc \in {"awaitUndef", "done"}
              /\ trig'[k] # trig[k] => \A t \in TaskIds : ~TaskStarts(t)]_vars

\* an update on such a manager has returned while its task is active
C25_Witness ==
  /\ ~template.interruptible /\ template.persistent
  /\ \E k \in CallIds :
       /\ trig[k].pc = "awaitUndef"
       /\ mgr[trig[k].m].activeTask # 0
       /\ ~mgr[trig[k].m].teardownInitiated

\* the updateConfig calls made so far
UpdatesMade ==
  {k \in CallIds : trig[k].pc # "idle" /\ DataAt(trig[k].data, 0) # Undefined}

\* C26: when no updateConfig call waits any more, the task the manager has
\* launched last, its active one, was launched with the config and data of
\* the most recent updateConfig call, also when that call found another
\* one queued and returned.
C26_LastTaskHasLatestData ==
  LET a == mgr[TheManager].activeTask IN
  (a # 0 /\ \A k \in UpdatesMade : trig[k].pc # "awaitDrain") =>
    \A k \in UpdatesMade :
      /\ task[a].config >= k
      /\ task[a].config = k => task[a].data = DataAt(trig[k].data, 0)

\* the trigger calls started so far
TriggersStarted == {k \in TriggerIds : trig[k].pc # "idle"}

\* C27: when trigger calls have overlapped and all of them have returned,
\* the keys of the managers map are exactly the indices at which the data
\* of the call started last is defined.
C27_OverlapKeepsLatestKeys ==
  (/\ \A k \in TriggersStarted : trig[k].pc = "done"
   /\ \E k \in TriggersStarted : ~trig[k].alone) =>
    \A k \in TriggersStarted :
      (\A j \in TriggersStarted : j <= k) =>
        ManagerKeys(Heap) = DefinedIndices(trig[k].data)

\* shutdown() has run to its end
ShutdownCompleted ==
  sup.watcher = "closed" /\ parentAborted /\ pt.pc = "done"

\* C28: once shutdown has completed no step invokes launch, starts a task
\* or creates a manager.
C28_NothingStartsAfterShutdown ==
  [][ShutdownCompleted =>
       /\ \A t \in TaskIds : ~LaunchInvoked(t) /\ ~TaskStarts(t)
       /\ \A m \in ManagerIds : mgr'[m].created = mgr[m].created]_vars

\* the launches in flight of the managers created for slot index i
LaunchesInFlightAt(i) ==
  {t \in TaskIds :
     task[t].pc = "launching" /\ mgr[task[t].mgr].entryId = ToString(i)}

\* C29: at most one launch is in flight per slot index, the managers the
\* pool created for the index one after the other taken together.
C29_OneLaunchPerSlot ==
  \A i \in 0 .. MaxLen - 1 : Cardinality(LaunchesInFlightAt(i)) <= 1

\* C30: the retry loop never throws its internal error, and without
\* persistent mode the attempt counter never exceeds retry.retries, so that
\* retriesLeft is never negative when a failure of launch is evaluated.
C30_InternalErrorsUnreachable ==
  /\ task[TheTask].result # "internalError"
  /\ ~template.persistent =>
       task[TheTask].failedAttempts <= template.retries

\* every retry was used up and the last failure of launch was rethrown
C30_Witness ==
  /\ ~template.persistent
  /\ template.retries = MaxRetriesAlone
  /\ task[TheTask].pc = "threw"
  /\ task[TheTask].result = "failed"
  /\ task[TheTask].failedAttempts = template.retries

====
